---- MODULE Spec2Model ----
(***************************************************************************)
(* A model of the entab streaming parser runtime: the FASTA record reader  *)
(* (src/src/readers/fasta.rs) over a refillable read buffer, and the       *)
(* Inficon Hapsite header and record parsers                               *)
(* (src/entab/src/readers/inficon.rs).                                     *)
(*                                                                         *)
(* Byte strings are sequences of integers 0..255.  The Rust code indexes   *)
(* from 0; At and Slice translate 0-based indices and half-open ranges to  *)
(* TLA+ sequences.                                                         *)
(***************************************************************************)
EXTENDS Integers, Sequences, FiniteSets, TLC

VARIABLES input, source, rb, pc, out, call, locals, state, meta, built, sink, drv

vars == <<input, source, rb, pc, out, call, locals, state, meta, built, sink, drv>>

-----------------------------------------------------------------------------
(* Bounds of the model *)

\* longest input handed to the FASTA reader as a complete slice
MaxLen == 7
\* longest input handed to the FASTA reader through a byte source
MaxStreamLen == 5
\* longest input that does not start with '>'
MaxStrayLen == 3
\* most bursts in the data section of an Inficon file
MaxBursts == 1
\* longest FASTA input handed to the TSV driver
TsvMaxLen == 6
\* longest buffer an error takes its context from
ErrMaxLen == 34
\* next() calls made after the first None or error of a reader
ExtraCalls == 1
MaxLiveLen == 3

-----------------------------------------------------------------------------
(* Bytes *)

GT == 62
LF == 10
CR == 13
LetterA == 65
BadByte == 255

\* the bytes the FASTA inputs are made of: '>', '\n', '\r', a letter and a
\* byte that is never valid UTF-8
FastaAlphabet == {GT, LF, CR, LetterA, BadByte}

NoPos == -1

At(s, i) == s[i + 1]

\* s[a..b]
Slice(s, a, b) == SubSeq(s, a + 1, b)

RECURSIVE SeqsUpTo(_, _)
SeqsUpTo(S, n) ==
    IF n = 0 THEN {<<>>}
    ELSE LET shorter == SeqsUpTo(S, n - 1)
         IN shorter \cup {Append(s, b) : s \in {t \in shorter : Len(t) = n - 1}, b \in S}

\* memchr: the first index of byte c in s
Memchr(c, s) ==
    IF \E i \in 1..Len(s) : s[i] = c
    THEN (CHOOSE i \in 1..Len(s) : s[i] = c /\ \A j \in 1..(i - 1) : s[j] # c) - 1
    ELSE NoPos

\* core::str::from_utf8 on the bytes of FastaAlphabet: the ASCII bytes are
\* valid, 0xFF never is
Utf8Valid(bytes) == \A i \in 1..Len(bytes) : bytes[i] < 128

-----------------------------------------------------------------------------
(* The read buffer *)

\* ReadBuffer::from_slice: the whole input is the window and eof is set
FromSlice(bytes) ==
    [buffer |-> bytes, consumed |-> 0, reader_pos |-> 0, record_pos |-> 0, eof |-> TRUE]

\* ReadBuffer::new: an initial fill of k bytes; a source that yields no
\* bytes sets eof
NewBuffer(bytes, k) ==
    [buffer |-> SubSeq(bytes, 1, k), consumed |-> 0, reader_pos |-> 0,
     record_pos |-> 0, eof |-> (k = 0)]

\* Deref: the unread part of the window
Window(b) == Slice(b.buffer, b.consumed, Len(b.buffer))

\* refill: drop the consumed prefix and append the chunk the source
\* yields; an empty chunk sets eof
Refill(b, chunk) ==
    [b EXCEPT !.buffer = Window(b) \o chunk,
              !.reader_pos = b.reader_pos + b.consumed,
              !.consumed = 0,
              !.eof = (chunk = <<>>)]

\* consume(k): advance the cursor by k and count one record
Consume(b, k) ==
    [b EXCEPT !.consumed = b.consumed + k, !.record_pos = b.record_pos + 1]

-----------------------------------------------------------------------------
(* FastaReader::next *)

\* the header split without the "\r\n" case
HeaderSplit_KeepCr(s, p) == [header_end |-> p, seq_start |-> p + 1]

\* the header split that takes every header line to end with "\r\n"
HeaderSplit_AlwaysStrip(s, p) == [header_end |-> p - 1, seq_start |-> p + 1]

\* the header split of one pass of the loop: (header_end, seq_start)
HeaderSplit(s, p) ==
    IF p > 0 /\ At(s, p - 1) = CR
    THEN [header_end |-> p - 1, seq_start |-> p + 1]
    ELSE [header_end |-> p, seq_start |-> p + 1]

\* the test that ends the scan of the sequence lines
IsRecordEnd(s, pos) == pos + 1 < Len(s) /\ At(s, pos + 1) = GT

\* the push that forgets the '\r' before the newline
PushNewline_NoCr(s, seq_start, raw_pos, nl) == Append(nl, raw_pos)

\* the offsets pushed for the newline at raw_pos
PushNewline(s, seq_start, raw_pos, nl) ==
    LET pos == seq_start + raw_pos
    IN IF pos > 0 /\ At(s, pos - 1) = CR
       THEN Append(Append(nl, raw_pos - 1), raw_pos)
       ELSE Append(nl, raw_pos)

\* the for loop over memchr_iter(b'\n', &rb[seq_start..]), from raw_pos on
RECURSIVE ScanNewlines(_, _, _, _)
ScanNewlines(s, seq_start, raw_pos, nl) ==
    IF seq_start + raw_pos >= Len(s) THEN [nl |-> nl, found_end |-> FALSE]
    ELSE IF At(s, seq_start + raw_pos) # LF
         THEN ScanNewlines(s, seq_start, raw_pos + 1, nl)
         ELSE LET pushed == PushNewline(s, seq_start, raw_pos, nl)
              IN IF IsRecordEnd(s, seq_start + raw_pos)
                 THEN [nl |-> pushed, found_end |-> TRUE]
                 ELSE ScanNewlines(s, seq_start, raw_pos + 1, pushed)

\* the while loop that pops the trailing consecutive newline offsets
RECURSIVE TrimTrailing(_, _)
TrimTrailing(endpos, nl) ==
    IF endpos > 0 /\ Len(nl) > 0 /\ nl[Len(nl)] = endpos - 1
    THEN TrimTrailing(nl[Len(nl)], SubSeq(nl, 1, Len(nl) - 1))
    ELSE [endpos |-> endpos, nl |-> nl]

\* the record end that leaves the last byte out of a sequence that runs to
\* the end of input
RecordEnd_ShortAtEof(s, seq_start, scan) ==
    IF scan.found_end
    THEN LET endpos == scan.nl[Len(scan.nl)]
             trim == TrimTrailing(endpos, SubSeq(scan.nl, 1, Len(scan.nl) - 1))
         IN [seq_end |-> seq_start + trim.endpos, rec_end |-> seq_start + endpos + 1,
             nl |-> trim.nl]
    ELSE [seq_end |-> Len(s) - 1, rec_end |-> Len(s), nl |-> scan.nl]

\* the end of the sequence and of the record
RecordEnd(s, seq_start, scan) ==
    IF scan.found_end
    THEN LET endpos == scan.nl[Len(scan.nl)]
             trim == TrimTrailing(endpos, SubSeq(scan.nl, 1, Len(scan.nl) - 1))
         IN [seq_end |-> seq_start + trim.endpos, rec_end |-> seq_start + endpos + 1,
             nl |-> trim.nl]
    ELSE [seq_end |-> Len(s), rec_end |-> Len(s), nl |-> scan.nl]

\* the copy loop that leaves out the bytes at the recorded offsets
RECURSIVE CopyWithout(_, _, _, _)
CopyWithout(raw, nl, i, start) ==
    IF i > Len(nl) THEN Slice(raw, start, Len(raw))
    ELSE Slice(raw, start, nl[i]) \o CopyWithout(raw, nl, i + 1, nl[i] + 1)

BuildSequence(raw, nl) == IF nl = <<>> THEN raw ELSE CopyWithout(raw, nl, 1, 0)

\* the scan never waits for more bytes
ScanUnfinished_Never(found_end, eof) == FALSE

\* the scan waits for more bytes whenever no "\n>" pair was found
ScanUnfinished_IgnoreEof(found_end, eof) == ~found_end

\* line 106: no "\n>" pair ends the record and more bytes may come
ScanUnfinished(found_end, eof) == ~found_end /\ ~eof

\* one pass of the loop over the unread window s
LoopPass(s, eof) ==
    LET p == Memchr(LF, s)
    IN IF p = NoPos
       THEN [step |-> IF eof THEN "incomplete" ELSE "refill"]
       ELSE LET h == HeaderSplit(s, p)
                scan == ScanNewlines(s, h.seq_start, 0, <<>>)
            IN IF ScanUnfinished(scan.found_end, eof)
               THEN [step |-> "refill"]
               ELSE LET e == RecordEnd(s, h.seq_start, scan)
                    IN [step |-> "finish", header_end |-> h.header_end,
                        seq_start |-> h.seq_start, seq_end |-> e.seq_end,
                        rec_end |-> e.rec_end, nl |-> e.nl,
                        pushed |-> scan.nl, found_end |-> scan.found_end]

\* every index, range and subtraction of the pass is in bounds: rb[..p],
\* the pushes of raw_pos - 1, consume(rec_end), record[1..header_end],
\* record[seq_start..seq_end], raw_sequence.len() - seq_newlines.len() and
\* raw_sequence[start..pos]
PassInBounds(s, pass) ==
    LET raw_len == pass.seq_end - pass.seq_start
    IN /\ \A i \in 1..Len(pass.pushed) : pass.pushed[i] >= 0
       /\ pass.rec_end <= Len(s)
       /\ 1 <= pass.header_end /\ pass.header_end <= pass.rec_end
       /\ pass.seq_start <= pass.seq_end /\ pass.seq_end <= pass.rec_end
       /\ Len(pass.nl) <= raw_len
       /\ \A i \in 1..Len(pass.nl) :
             /\ pass.nl[i] < raw_len
             /\ i > 1 => pass.nl[i - 1] < pass.nl[i]

\* results of next()
NoneResult == [kind |-> "none"]
ErrResult(msg) == [kind |-> "err", msg |-> msg]
SomeResult(id, sequence, owned) ==
    [kind |-> "some", id |-> id, sequence |-> sequence, owned |-> owned]
PanicResult == [kind |-> "panic"]

\* the result built from the consumed record
RecordResult(record, pass) ==
    LET header == Slice(record, 1, pass.header_end)
        raw_sequence == Slice(record, pass.seq_start, pass.seq_end)
    IN IF Utf8Valid(header)
       THEN SomeResult(header, BuildSequence(raw_sequence, pass.nl), pass.nl # <<>>)
       ELSE ErrResult("utf8")

\* the start-byte check left out
StartsRecord_Any(s) == TRUE

\* the first byte of a record
StartsRecord(s) == At(s, 0) = GT

\* one entry of the history of next() calls: the result with the buffer and
\* the byte source at the call and at the return
Returned(result, c, b, src) ==
    [result |-> result, rb0 |-> c.rb, src0 |-> c.src, rb1 |-> b, src1 |-> src]

Terminal(e) == e.result.kind # "some"

NumTerminal(o) == Cardinality({i \in 1..Len(o) : Terminal(o[i])})

NoCall == [rb |-> FromSlice(<<>>), src |-> <<>>]
NoLocals == [set |-> FALSE]

\* lines 72-79: the empty check and the start-byte check
NextCall ==
    /\ pc = "idle"
    /\ NumTerminal(out) <= ExtraCalls
    /\ LET c == [rb |-> rb, src |-> source]
       IN IF Window(rb) = <<>>
          THEN /\ out' = Append(out, Returned(NoneResult, c, rb, source))
               /\ pc' = "idle"
               /\ call' = call
          ELSE IF ~StartsRecord(Window(rb))
               THEN /\ out' = Append(out,
                          Returned(ErrResult("Valid FASTA records start with '>'"),
                                   c, rb, source))
                    /\ pc' = "idle"
                    /\ call' = call
               ELSE /\ out' = out
                    /\ pc' = "loop"
                    /\ call' = c
    /\ UNCHANGED <<input, source, rb, locals, state, meta, built, sink, drv>>

\* lines 88-93 and 106-110: the pass needs more bytes and the buffer is not
\* at eof
LoopRefill ==
    /\ pc = "loop"
    /\ LoopPass(Window(rb), rb.eof).step = "refill"
    /\ \E n \in 0..Len(source) :
          /\ n = 0 => source = <<>>
          /\ rb' = Refill(rb, SubSeq(source, 1, n))
          /\ source' = SubSeq(source, n + 1, Len(source))
    /\ UNCHANGED <<input, pc, out, call, locals, state, meta, built, sink, drv>>

\* line 89: no newline ends the header and the buffer is at eof
LoopIncomplete ==
    /\ pc = "loop"
    /\ LoopPass(Window(rb), rb.eof).step = "incomplete"
    /\ out' = Append(out, Returned(ErrResult("Incomplete record"), call, rb, source))
    /\ pc' = "idle"
    /\ UNCHANGED <<input, source, rb, call, locals, state, meta, built, sink, drv>>

\* lines 111-150: the record is delimited, consumed and returned
LoopFinish ==
    /\ pc = "loop"
    /\ LET s == Window(rb)
           pass == LoopPass(s, rb.eof)
       IN /\ pass.step = "finish"
          /\ locals' = [set |-> TRUE, win |-> s, pass |-> pass]
          /\ IF PassInBounds(s, pass)
             THEN /\ rb' = Consume(rb, pass.rec_end)
                  /\ out' = Append(out,
                        Returned(RecordResult(Slice(s, 0, pass.rec_end), pass),
                                 call, rb', source))
             ELSE /\ rb' = rb
                  /\ out' = Append(out, Returned(PanicResult, call, rb, source))
    /\ pc' = "idle"
    /\ UNCHANGED <<input, source, call, state, meta, built, sink, drv>>

-----------------------------------------------------------------------------
(* Extraction primitives over a slice and a cursor *)

\* the bounds check every primitive makes before it reads n bytes at con
CanTake(s, con, n) == con + n <= Len(s)

\* a little-endian u32 as its two 16-bit halves, so that values of 2^31 and
\* more are kept
U32At(s, con) ==
    [hi |-> At(s, con + 2) + 256 * At(s, con + 3),
     lo |-> At(s, con) + 256 * At(s, con + 1)]

U32Of(n) == [hi |-> n \div 65536, lo |-> n % 65536]

U32Less(a, b) == a.hi < b.hi \/ (a.hi = b.hi /\ a.lo < b.lo)

\* the value of a u32 below 2^31
U32Int(u) == u.hi * 65536 + u.lo

\* the number of passes a loop over 0..u can make on a slice of len bytes
\* when every pass extracts at least one byte: the pass after the last
\* byte fails
LoopCount(u, len) == IF u.hi > 0 \/ u.lo > len THEN len + 1 ELSE u.lo

U16At(s, con) == At(s, con) + 256 * At(s, con + 1)

I32At(s, con) ==
    LET top == At(s, con + 3)
    IN At(s, con) + 256 * At(s, con + 1) + 65536 * At(s, con + 2)
         + 16777216 * (IF top < 128 THEN top ELSE top - 256)

\* SeekPattern: the cursor after the first match of pat at or after con
SeekPattern(s, con, pat) ==
    LET hits == {i \in con..(Len(s) - Len(pat)) :
                    \A k \in 1..Len(pat) : s[i + k] = pat[k]}
    IN IF hits = {} THEN NoPos
       ELSE (CHOOSE i \in hits : \A j \in hits : i <= j) + Len(pat)

\* the error of an extraction that runs past the end of the slice
ShortError == "incomplete"

-----------------------------------------------------------------------------
(* InficonState::parse: the header *)

Zeros(n) == [i \in 1..n |-> 0]

MzHeaderPattern == <<255, 255, 255, 255>> \o Zeros(32) \o <<246, 255, 255, 255, 0, 0, 0, 0>>
GpirPattern == <<255, 255, 255, 255, 72, 97, 112, 115, 71, 80, 73, 82>>
HapsScan == <<72, 97, 112, 115, 83, 99, 97, 110>>

MaxSegmentCount == 10000
\* 4e9 as u32
MzLimit == [hi |-> 61035, lo |-> 10240]

\* f64::from(n) / d
Ratio(n, d) == [num |-> n, den |-> d]

\* a range that ends the parse with "m/z range is too big or invalid"
RangeInvalid_LimitOnly(start_mz, end_mz) == ~U32Less(end_mz, MzLimit)

RangeInvalid(start_mz, end_mz) == ~U32Less(start_mz, end_mz) \/ ~U32Less(end_mz, MzLimit)

\* the while loop of the full scan mode
RECURSIVE ScanMzs(_, _)
ScanMzs(mz, end_mz) ==
    IF mz < end_mz + 1 THEN <<Ratio(mz, 100)>> \o ScanMzs(mz + 100, end_mz) ELSE <<>>

\* every range read as a SIM
RangeMzs_AlwaysSim(start_mz, end_mz, i_type) == <<Ratio(U32Int(start_mz), 100)>>

\* the m/z values one range adds to its segment
RangeMzs(start_mz, end_mz, i_type) ==
    IF i_type = U32Of(0) THEN <<Ratio(U32Int(start_mz), 100)>>
    ELSE ScanMzs(U32Int(start_mz), U32Int(end_mz))

HeaderError(msg) == [ok |-> FALSE, msg |-> msg]

\* the loop over 0..n_mzs: left passes to go, segment the values so far
RECURSIVE ParseRanges(_, _, _, _)
ParseRanges(s, con, left, segment) ==
    IF left = 0 THEN [ok |-> TRUE, con |-> con, segment |-> segment]
    ELSE IF ~CanTake(s, con, 8) THEN HeaderError(ShortError)
    ELSE LET start_mz == U32At(s, con)
             end_mz == U32At(s, con + 4)
         IN IF RangeInvalid(start_mz, end_mz)
            THEN HeaderError("m/z range is too big or invalid")
            ELSE IF ~CanTake(s, con + 8, 24) THEN HeaderError(ShortError)
            ELSE ParseRanges(s, con + 32, left - 1,
                     segment \o RangeMzs(start_mz, end_mz, U32At(s, con + 24)))

\* the loop over the collection segments
RECURSIVE ParseSegments(_, _, _, _)
ParseSegments(s, con, left, segments) ==
    IF left = 0 THEN [ok |-> TRUE, con |-> con, mz_segments |-> segments]
    ELSE IF ~CanTake(s, con, 100) THEN HeaderError(ShortError)
    ELSE LET r == ParseRanges(s, con + 100, LoopCount(U32At(s, con + 96), Len(s)), <<>>)
         IN IF ~r.ok THEN r
            ELSE ParseSegments(s, r.con, left - 1, Append(segments, r.segment))

\* the scan data header is accepted without a byte of it being read
ParseDataHeader_ShortCursor(s, con, segments) ==
    [ok |-> TRUE, con |-> con, mz_segments |-> segments, data_left |-> 0]

\* lines 77-91: the scan data header after the segment table
ParseDataHeader(s, con, segments) ==
    LET g == SeekPattern(s, con, GpirPattern)
    IN IF g = NoPos THEN HeaderError("Could not find start of scan data")
       ELSE IF ~CanTake(s, g, 180 + 4 + 8 + 8) THEN HeaderError(ShortError)
       ELSE IF Slice(s, g + 192, g + 200) # HapsScan
            THEN HeaderError("Data header was malformed")
       ELSE IF ~CanTake(s, g + 200, 56) THEN HeaderError(ShortError)
       ELSE [ok |-> TRUE, con |-> g + 256, mz_segments |-> segments,
             data_left |-> U32Int(U32At(s, g + 180))]

\* lines 36-76, then the data header
ParseHeader(s) ==
    LET m == SeekPattern(s, 0, MzHeaderPattern)
    IN IF m = NoPos THEN HeaderError("Could not find m/z header list")
       ELSE IF ~CanTake(s, m, 148 + 4) THEN HeaderError(ShortError)
       ELSE LET n_segments == U32At(s, m + 148)
            IN IF U32Less(U32Of(MaxSegmentCount), n_segments)
               THEN HeaderError("Inficon file has too many segments")
               ELSE LET t == ParseSegments(s, m + 152, U32Int(n_segments), <<>>)
                    IN IF ~t.ok THEN t ELSE ParseDataHeader(s, t.con, t.mz_segments)

\* #[derive(Default)] InficonState
EmptyState ==
    [mz_segments |-> <<>>, data_left |-> 0, cur_time |-> Ratio(0, 1), cur_mz |-> Ratio(0, 1),
     cur_intensity |-> U32Of(0), cur_segment |-> 0, mzs_left |-> 0]

\* the end-of-data return that also clears the counter
EndOfData_ClearLeft(st) == [kind |-> "false", st |-> [st EXCEPT !.data_left = 0]]

\* lines 120-122: no record
EndOfData(st) == [kind |-> "false", st |-> st]

RecordError(msg, st) == [kind |-> "err", msg |-> msg, st |-> st]

\* lines 152-158: the intensity at con of a burst with mzs_left values to go
ParseIntensity(s, con, mzs_left, st) ==
    IF ~CanTake(s, con, 4) THEN RecordError(ShortError, st)
    ELSE LET cur_mz_segment == st.mz_segments[st.cur_segment + 1]
             index == Len(cur_mz_segment) - st.mzs_left
         IN IF index < 0 \/ index >= Len(cur_mz_segment) \/ mzs_left - 1 < 0
            THEN [kind |-> "panic", st |-> st]
            ELSE [kind |-> "true", con |-> con + 4,
                  st |-> [st EXCEPT !.cur_intensity = U32At(s, con),
                                    !.cur_mz = cur_mz_segment[index + 1],
                                    !.mzs_left = mzs_left - 1,
                                    !.data_left = IF st.data_left < con + 4 THEN 0
                                                  ELSE st.data_left - (con + 4)]]

\* lines 125-151: the burst header
ParseBurstHeader(s, st) ==
    IF ~CanTake(s, 0, 8) THEN RecordError(ShortError, st)
    ELSE LET st1 == [st EXCEPT !.cur_time = Ratio(I32At(s, 4), 60000)]
         IN IF ~CanTake(s, 8, 8) THEN RecordError(ShortError, st1)
            ELSE LET n_mzs == U16At(s, 10)
                     st2 == [st1 EXCEPT !.cur_segment = U16At(s, 14) \div 16]
                 IN IF st2.cur_segment >= Len(st2.mz_segments)
                    THEN RecordError("Invalid segment number", st2)
                    ELSE IF n_mzs # Len(st2.mz_segments[st2.cur_segment + 1])
                         THEN RecordError("Number of intensities doesn't match number of mzs",
                                          st2)
                         ELSE ParseIntensity(s, 16, n_mzs, st2)

\* InficonRecord::parse
ParseRecord(s, st) ==
    IF st.data_left > 0 THEN EndOfData(st)
    ELSE IF st.mzs_left = 0 THEN ParseBurstHeader(s, st)
         ELSE ParseIntensity(s, 0, st.mzs_left, st)

-----------------------------------------------------------------------------
(* Inficon files *)

LE16(n) == <<n % 256, n \div 256>>
LE32(u) == LE16(u.lo) \o LE16(u.hi)

RECURSIVE Concat(_)
Concat(ss) == IF ss = <<>> THEN <<>> ELSE Head(ss) \o Concat(Tail(ss))

\* the magic bytes an Inficon file starts with
Magic == <<4, 3, 2, 1, 83, 80, 65, 72, 66>>

Sim(a, b) == [start_mz |-> U32Of(a), end_mz |-> U32Of(b), i_type |-> 0]
FullScan(a, b) == [start_mz |-> U32Of(a), end_mz |-> U32Of(b), i_type |-> 1]

\* the segment tables of the files: none, one SIM range, one full scan
\* range, two SIM ranges, and two segments with the second one empty or a
\* full scan
Tables ==
    {<<>>,
     <<<<Sim(100, 200)>>>>,
     <<<<FullScan(100, 300)>>>>,
     <<<<Sim(100, 200), Sim(300, 400)>>>>,
     <<<<Sim(100, 200), Sim(300, 400)>>, <<>>>>,
     <<<<Sim(100, 200)>>, <<FullScan(100, 300)>>>>,
     <<<<FullScan(100, 250), Sim(300, 400)>>>>}

Faults ==
    {"no_mz_pattern", "too_many_segments", "bad_range", "big_range", "no_gpir", "no_scan"}

RangeBytes(r, fault) ==
    LE32(r.start_mz)
      \o LE32(IF fault = "bad_range" THEN r.start_mz
              ELSE IF fault = "big_range" THEN MzLimit ELSE r.end_mz)
      \o Zeros(16) \o LE32(U32Of(r.i_type)) \o Zeros(4)

SegmentBytes(seg, fault) ==
    Zeros(96) \o LE32(U32Of(Len(seg)))
      \o Concat([i \in 1..Len(seg) |-> RangeBytes(seg[i], IF i = 1 THEN fault ELSE "none")])

HeaderBytes(table, declared, fault) ==
    Magic
      \o (IF fault = "no_mz_pattern" THEN Zeros(44) ELSE MzHeaderPattern)
      \o Zeros(148)
      \o LE32(U32Of(IF fault = "too_many_segments" THEN MaxSegmentCount + 1 ELSE Len(table)))
      \o Concat([i \in 1..Len(table) |-> SegmentBytes(table[i], IF i = 1 THEN fault ELSE "none")])
      \o (IF fault = "no_gpir" THEN Zeros(12) ELSE GpirPattern)
      \o Zeros(180) \o LE32(U32Of(declared)) \o Zeros(8)
      \o (IF fault = "no_scan" THEN Zeros(8) ELSE HapsScan)
      \o Zeros(56)

\* a burst: its header and n intensities of 1.0
BurstBytes(b) ==
    LE32(U32Of(1)) \o LE32(U32Of(60000)) \o LE16(1) \o LE16(b.n) \o LE16(65535)
      \o LE16(b.segment * 16 + 15)
      \o Concat([i \in 1..b.n |-> <<0, 0, 128, 63>>])
      \o Zeros(b.pad)

DataBytes(bursts) == Concat([i \in 1..Len(bursts) |-> BurstBytes(bursts[i])])

\* the bursts of the files: a segment index, in or out of the table, the
\* number of intensities, and the number of bytes that follow them
Bursts == [segment : {0, 1, 2}, n : {0, 1, 2}, pad : {0, 4}]

\* every burst names a segment of SIM ranges and declares its m/z count
BurstsFit(table, bursts) ==
    \A i \in 1..Len(bursts) :
        /\ bursts[i].segment < Len(table)
        /\ bursts[i].pad = 0
        /\ LET seg == table[bursts[i].segment + 1]
           IN /\ \A k \in 1..Len(seg) : seg[k].i_type = 0
              /\ bursts[i].n = Len(seg)

InficonFile(table, bursts, declared, fault, cut) ==
    LET header == HeaderBytes(table, declared, fault)
        whole == header \o DataBytes(bursts)
    IN [bytes |-> SubSeq(whole, 1, IF cut < 0 THEN Len(whole) ELSE cut),
        table |-> table,
        header_ok |-> fault = "none" /\ (cut < 0 \/ cut >= Len(header)),
        header_len |-> Len(header),
        data_len |-> Len(DataBytes(bursts)),
        data_ok |-> BurstsFit(table, bursts) /\ declared = Len(DataBytes(bursts))]

\* the files of the model: whole files with any bursts and either the
\* length of the data section or zero declared, files with one fault in the
\* header, and files cut short at every length
InficonFiles ==
    LET data == SeqsUpTo(Bursts, MaxBursts)
    IN {InficonFile(tb, d, n, "none", -1) : tb \in Tables, d \in data, n \in {0, 24}}
       \cup {InficonFile(tb, d, Len(DataBytes(d)), "none", -1) : tb \in Tables, d \in data}
       \cup {InficonFile(tb, <<>>, 0, f, -1) :
                tb \in {x \in Tables : x # <<>> /\ x[1] # <<>>}, f \in Faults}
       \cup UNION {{InficonFile(tb, <<>>, 0, "none", cut) :
                        cut \in 0..(Len(HeaderBytes(tb, 0, "none")) - 1)} :
                   tb \in {x \in Tables : Len(x) <= 1}}

NoFile == [header_ok |-> FALSE]
\* no TSV driver runs
NoDriver == [kind |-> "none"]
NotBuilt == [done |-> FALSE]

\* one entry of the history of InficonReader::next calls
InficonReturned(result, b0, st0, b1, st1) ==
    [result |-> result, con0 |-> b0.consumed, st0 |-> st0, con1 |-> b1.consumed, st1 |-> st1]

\* InficonReader::new: the header is parsed into the state
InficonNew ==
    /\ pc = "new"
    /\ LET r == ParseHeader(Window(rb))
       IN IF r.ok
          THEN /\ rb' = [rb EXCEPT !.consumed = rb.consumed + r.con]
               /\ state' = [state EXCEPT !.mz_segments = r.mz_segments,
                                         !.data_left = r.data_left]
               /\ built' = [done |-> TRUE, ok |-> TRUE, con |-> r.con]
               /\ pc' = "ready"
          ELSE /\ built' = [done |-> TRUE, ok |-> FALSE, msg |-> r.msg]
               /\ pc' = "failed"
               /\ UNCHANGED <<rb, state>>
    /\ UNCHANGED <<input, source, out, call, locals, meta, sink, drv>>

\* InficonReader::next: one record parse on the unread window
InficonNext ==
    /\ pc = "ready"
    /\ NumTerminal(out) <= ExtraCalls
    /\ LET r == ParseRecord(Window(rb), state)
       IN /\ state' = r.st
          /\ rb' = IF r.kind = "true" THEN Consume(rb, r.con) ELSE rb
          /\ pc' = IF r.kind = "panic" THEN "dead" ELSE "ready"
          /\ out' = Append(out, InficonReturned(
                 CASE r.kind = "true" -> [kind |-> "some", time |-> r.st.cur_time,
                                          mz |-> r.st.cur_mz,
                                          intensity |-> r.st.cur_intensity]
                   [] r.kind = "false" -> NoneResult
                   [] r.kind = "err" -> ErrResult(r.msg)
                   [] r.kind = "panic" -> PanicResult,
                 rb, state, rb', r.st))
    /\ UNCHANGED <<input, source, call, locals, meta, built, sink, drv>>

\* the inputs of at most n bytes: next() reads past the first byte only when
\* it is '>', so the inputs that start with another byte are kept short
FastaInputs(n) ==
    {<<GT>> \o s : s \in SeqsUpTo(FastaAlphabet, n - 1)}
        \cup SeqsUpTo(FastaAlphabet, IF n < MaxStrayLen THEN n ELSE MaxStrayLen)

\* a FASTA reader over a slice or over a byte source
FastaInit ==
    /\ pc = "idle"
    /\ state = EmptyState
    /\ meta = NoFile
    /\ \/ /\ input \in FastaInputs(MaxLen)
          /\ rb = FromSlice(input)
          /\ source = <<>>
       \/ /\ input \in FastaInputs(MaxStreamLen)
          /\ \E k \in 0..Len(input) :
                /\ k = 0 => input = <<>>
                /\ rb = NewBuffer(input, k)
                /\ source = SubSeq(input, k + 1, Len(input))

\* an Inficon reader about to be made over a slice
InficonInit ==
    /\ pc = "new"
    /\ state = EmptyState
    /\ \E f \in InficonFiles :
          /\ input = f.bytes
          /\ meta = [header_ok |-> f.header_ok, header_len |-> f.header_len,
                     data_len |-> f.data_len, data_ok |-> f.data_ok,
                     table |-> f.table]
    /\ rb = FromSlice(input)
    /\ source = <<>>

Init ==
    /\ out = <<>>
    /\ call = NoCall
    /\ locals = NoLocals
    /\ built = NotBuilt
    /\ sink = <<>>
    /\ drv = NoDriver
    /\ (FastaInit \/ InficonInit)

Next == NextCall \/ LoopRefill \/ LoopIncomplete \/ LoopFinish \/ InficonNew \/ InficonNext

Spec == Init /\ [][Next]_vars

\* a FASTA reader over a byte source of at most MaxLiveLen bytes that hands
\* them out in chunks
FairInit ==
    /\ out = <<>>
    /\ call = NoCall
    /\ locals = NoLocals
    /\ built = NotBuilt
    /\ sink = <<>>
    /\ drv = NoDriver
    /\ pc = "idle"
    /\ state = EmptyState
    /\ meta = NoFile
    /\ input \in FastaInputs(MaxLiveLen)
    /\ \E k \in 0..Len(input) :
          /\ k = 0 => input = <<>>
          /\ rb = NewBuffer(input, k)
          /\ source = SubSeq(input, k + 1, Len(input))

FairNext == NextCall \/ LoopRefill \/ LoopIncomplete \/ LoopFinish

\* next() runs to its return once it is called and the caller keeps calling
\* it: the iteration is sequential code
FairSpec ==
    /\ FairInit /\ [][FairNext]_vars
    /\ WF_vars(NextCall) /\ WF_vars(LoopRefill) /\ WF_vars(LoopIncomplete)
    /\ WF_vars(LoopFinish)

-----------------------------------------------------------------------------
(* The reader run on a complete slice *)

\* next() on the unread window s of a buffer made by from_slice: the
\* result and the window left
SliceNext(s) ==
    IF s = <<>> THEN [result |-> NoneResult, left |-> s]
    ELSE IF ~StartsRecord(s)
         THEN [result |-> ErrResult("Valid FASTA records start with '>'"), left |-> s]
         ELSE LET pass == LoopPass(s, TRUE)
              IN IF pass.step = "incomplete"
                 THEN [result |-> ErrResult("Incomplete record"), left |-> s]
                 ELSE IF ~PassInBounds(s, pass)
                      THEN [result |-> PanicResult, left |-> s]
                      ELSE [result |-> RecordResult(Slice(s, 0, pass.rec_end), pass),
                            left |-> Slice(s, pass.rec_end, Len(s))]

\* the results of the first n calls of next()
RECURSIVE SliceResults(_, _)
SliceResults(s, n) ==
    IF n = 0 THEN <<>>
    ELSE <<SliceNext(s).result>> \o SliceResults(SliceNext(s).left, n - 1)

\* s with every '\n' replaced by "\r\n"
RECURSIVE Crlf(_)
Crlf(s) ==
    IF s = <<>> THEN <<>>
    ELSE (IF Head(s) = LF THEN <<CR, LF>> ELSE <<Head(s)>>) \o Crlf(Tail(s))

\* what the caller sees of a result: the (id, sequence) pair, None or the error
Outcome(r) == IF r.kind = "some" THEN <<r.id, r.sequence>> ELSE r

-----------------------------------------------------------------------------
(* Records and the TSV driver write_reader_to_tsv *)

Tab == 9
Pipe == 124

\* the column names as bytes: "id", "sequence", "time", "mz", "intensity"
IdName == <<105, 100>>
SequenceName == <<115, 101, 113, 117, 101, 110, 99, 101>>
TimeName == <<116, 105, 109, 101>>
MzName == <<109, 122>>
IntensityName == <<105, 110, 116, 101, 110, 115, 105, 116, 121>>

\* replace_tabs(bytes, c)
ReplaceTabs(bytes, c) == [i \in 1..Len(bytes) |-> IF bytes[i] = Tab THEN c ELSE bytes[i]]

\* headers() that names the id column only
FastaHeaders_IdOnly == <<IdName>>

\* FastaReader::headers
FastaHeaders == <<IdName, SequenceName>>

\* FastaRecord::size
FastaSize == 2

\* write_field that writes the id as it is
FastaWriteField_Raw(record, index) ==
    IF index = 0 THEN [ok |-> TRUE, bytes |-> record.id]
    ELSE IF index = 1 THEN [ok |-> TRUE, bytes |-> record.sequence]
    ELSE [ok |-> FALSE]

\* FastaRecord::write_field: the bytes handed to the writer, or the panic
FastaWriteField(record, index) ==
    IF index = 0 THEN [ok |-> TRUE, bytes |-> ReplaceTabs(record.id, Pipe)]
    ELSE IF index = 1 THEN [ok |-> TRUE, bytes |-> record.sequence]
    ELSE [ok |-> FALSE]

\* impl_record!(InficonRecord: time, mz, intensity)
InficonHeaders == <<TimeName, MzName, IntensityName>>
InficonSize == 3
InficonWriteField(record, index) ==
    IF index = 0 THEN [ok |-> TRUE, bytes |-> record.time]
    ELSE IF index = 1 THEN [ok |-> TRUE, bytes |-> record.mz]
    ELSE IF index = 2 THEN [ok |-> TRUE, bytes |-> record.intensity]
    ELSE [ok |-> FALSE]

Headers(kind) == IF kind = "fasta" THEN FastaHeaders ELSE InficonHeaders
RecordSize(kind) == IF kind = "fasta" THEN FastaSize ELSE InficonSize
WriteField(kind, record, index) ==
    IF kind = "fasta" THEN FastaWriteField(record, index)
    ELSE InficonWriteField(record, index)

\* names.join("\t")
RECURSIVE JoinTabs(_)
JoinTabs(names) ==
    IF names = <<>> THEN <<>>
    ELSE IF Len(names) = 1 THEN names[1]
    ELSE names[1] \o <<Tab>> \o JoinTabs(Tail(names))

\* the field loop that also runs for i = size
FieldLoopContinues_Inclusive(i, size) == i <= size

\* line 24: for i in 1..n.size()
FieldLoopContinues(i, size) == i < size

\* one write of the driver: the bytes, the record they belong to (0 for
\* the header row) and the field index (-1 for a separator)
Written(bytes, rec, field) == [bytes |-> bytes, rec |-> rec, field |-> field]

\* write(...)?: the writer takes the bytes, or fails and ends the driver
Write(w, then) ==
    \/ /\ sink' = Append(sink, w)
       /\ pc' = then
    \/ /\ sink' = sink
       /\ pc' = "failed"

\* the FASTA inputs of the driver: bytes of '>', '\n', tab and a letter
TsvAlphabet == {GT, LF, Tab, LetterA}

TsvFastaInputs ==
    {<<GT>> \o s : s \in SeqsUpTo(TsvAlphabet, TsvMaxLen - 1)} \cup {<<>>, <<LetterA>>}

\* the driver is handed a read buffer over a complete slice
TsvInit ==
    /\ pc = "to_reader"
    /\ out = <<>>
    /\ call = NoCall
    /\ locals = NoLocals
    /\ built = NotBuilt
    /\ state = EmptyState
    /\ sink = <<>>
    /\ source = <<>>
    /\ \/ /\ input \in TsvFastaInputs
          /\ meta = NoFile
          /\ drv = [kind |-> "fasta", records |-> <<>>, i |-> 0, first |-> <<>>,
                    again |-> <<>>]
       \/ /\ \E f \in InficonFiles :
                /\ input = f.bytes
                /\ meta = [header_ok |-> f.header_ok, header_len |-> f.header_len,
                           data_len |-> f.data_len, data_ok |-> f.data_ok,
                           table |-> f.table]
          /\ drv = [kind |-> "inficon", records |-> <<>>, i |-> 0, first |-> <<>>,
                    again |-> <<>>]
    /\ rb = FromSlice(input)

\* line 19: R::default().to_reader(buffer)?
TsvToReader ==
    /\ pc = "to_reader"
    /\ IF drv.kind = "fasta"
       THEN /\ pc' = "headers"
            /\ UNCHANGED <<rb, state, built>>
       ELSE LET r == ParseHeader(Window(rb))
            IN IF r.ok
               THEN /\ rb' = [rb EXCEPT !.consumed = rb.consumed + r.con]
                    /\ state' = [state EXCEPT !.mz_segments = r.mz_segments,
                                              !.data_left = r.data_left]
                    /\ built' = [done |-> TRUE, ok |-> TRUE, con |-> r.con]
                    /\ pc' = "headers"
               ELSE /\ built' = [done |-> TRUE, ok |-> FALSE, msg |-> r.msg]
                    /\ pc' = "failed"
                    /\ UNCHANGED <<rb, state>>
    /\ UNCHANGED <<input, source, out, call, locals, meta, sink, drv>>

\* line 20: write(&rec_reader.headers().join("\t").as_bytes())?
TsvHeaders ==
    /\ pc = "headers"
    /\ Write(Written(JoinTabs(Headers(drv.kind)), 0, -1), "next")
    /\ drv' = [drv EXCEPT !.first = <<Headers(drv.kind)>>]
    /\ UNCHANGED <<input, source, rb, out, call, locals, state, meta, built>>

\* a caller asks the reader for its headers once more, after any number of
\* records
HeadersCall ==
    /\ pc \in {"next", "newline", "field0", "tab", "field", "done"}
    /\ drv.again = <<>>
    /\ drv' = [drv EXCEPT !.again = <<[at |-> Len(drv.records), names |-> Headers(drv.kind)]>>]
    /\ UNCHANGED <<input, source, rb, pc, out, call, locals, state, meta, built, sink>>

\* next() of the reader of the driver: the result, the buffer and the state
ReaderNext(kind, b, st) ==
    IF kind = "fasta"
    THEN LET r == SliceNext(Window(b))
             k == Len(Window(b)) - Len(r.left)
         IN [result |-> r.result, rb |-> IF k > 0 THEN Consume(b, k) ELSE b, st |-> st]
    ELSE LET r == ParseRecord(Window(b), st)
         IN [result |-> CASE r.kind = "true" -> [kind |-> "some", time |-> r.st.cur_time,
                                                 mz |-> r.st.cur_mz,
                                                 intensity |-> r.st.cur_intensity]
                          [] r.kind = "false" -> NoneResult
                          [] r.kind = "err" -> ErrResult(r.msg)
                          [] r.kind = "panic" -> PanicResult,
             rb |-> IF r.kind = "true" THEN Consume(b, r.con) ELSE b,
             st |-> r.st]

\* line 21: while let Some(n) = rec_reader.next()?
TsvNext ==
    /\ pc = "next"
    /\ LET r == ReaderNext(drv.kind, rb, state)
       IN /\ rb' = r.rb
          /\ state' = r.st
          /\ out' = Append(out, r.result)
          /\ IF r.result.kind = "some"
             THEN /\ drv' = [drv EXCEPT !.records =
                               Append(@, [n |-> r.result, size |-> RecordSize(drv.kind)])]
                  /\ pc' = "newline"
             ELSE /\ drv' = drv
                  /\ pc' = CASE r.result.kind = "none" -> "done"
                             [] r.result.kind = "err" -> "failed"
                             [] r.result.kind = "panic" -> "dead"
    /\ UNCHANGED <<input, source, call, locals, meta, built, sink>>

\* the record the loop body is in
CurrentRecord == drv.records[Len(drv.records)]

\* line 22: write(b"\n")?
TsvNewline ==
    /\ pc = "newline"
    /\ Write(Written(<<LF>>, Len(drv.records), -1), "field0")
    /\ UNCHANGED <<input, source, rb, out, call, locals, state, meta, built, drv>>

\* line 23: n.write_field(0, &mut write)?
TsvFieldZero ==
    /\ pc = "field0"
    /\ LET f == WriteField(drv.kind, CurrentRecord.n, 0)
       IN IF f.ok
          THEN Write(Written(f.bytes, Len(drv.records), 0), "tab")
          ELSE /\ pc' = "dead"
               /\ sink' = sink
    /\ drv' = [drv EXCEPT !.i = 1]
    /\ UNCHANGED <<input, source, rb, out, call, locals, state, meta, built>>

\* lines 24-25: the loop test and write(b"\t")?
TsvTab ==
    /\ pc = "tab"
    /\ IF FieldLoopContinues(drv.i, CurrentRecord.size)
       THEN Write(Written(<<Tab>>, Len(drv.records), -1), "field")
       ELSE /\ pc' = "next"
            /\ sink' = sink
    /\ UNCHANGED <<input, source, rb, out, call, locals, state, meta, built, drv>>

\* line 26: n.write_field(i, &mut write)?
TsvField ==
    /\ pc = "field"
    /\ LET f == WriteField(drv.kind, CurrentRecord.n, drv.i)
       IN IF f.ok
          THEN Write(Written(f.bytes, Len(drv.records), drv.i), "tab")
          ELSE /\ pc' = "dead"
               /\ sink' = sink
    /\ drv' = [drv EXCEPT !.i = drv.i + 1]
    /\ UNCHANGED <<input, source, rb, out, call, locals, state, meta, built>>

TsvNextStep ==
    TsvToReader \/ TsvHeaders \/ HeadersCall \/ TsvNext \/ TsvNewline \/ TsvFieldZero
        \/ TsvTab \/ TsvField

TsvSpec == TsvInit /\ [][TsvNextStep]_vars

-----------------------------------------------------------------------------
(* read_agilent_header *)

\* usize values are little-endian sequences of 16-bit limbs, two for a
\* 32-bit target and four for a 64-bit one
LimbBase == 65536

\* the builds: the width of usize and whether overflow checks are compiled
\* in (they panic) or left out (the value wraps)
Builds ==
    {[bits |-> 64, checks |-> FALSE], [bits |-> 64, checks |-> TRUE],
     [bits |-> 32, checks |-> FALSE], [bits |-> 32, checks |-> TRUE]}

\* u32 as usize
UsizeOfU32(u, build) ==
    IF build.bits = 32 THEN <<u.lo, u.hi>> ELSE <<u.lo, u.hi, 0, 0>>

\* x - 1 on limbs from limb i on: the wrapped value and whether it borrowed
\* past the last limb
RECURSIVE DecFrom(_, _)
DecFrom(x, i) ==
    IF i > Len(x) THEN [value |-> x, overflow |-> TRUE]
    ELSE IF x[i] > 0 THEN [value |-> [x EXCEPT ![i] = x[i] - 1], overflow |-> FALSE]
    ELSE DecFrom([x EXCEPT ![i] = LimbBase - 1], i + 1)

\* x * k for a small k on limbs from limb i on with a carry: the wrapped
\* value and whether a carry left the last limb
RECURSIVE MulFrom(_, _, _, _)
MulFrom(x, k, i, carry) ==
    IF i > Len(x) THEN [value |-> x, overflow |-> carry # 0]
    ELSE LET p == x[i] * k + carry
         IN MulFrom([x EXCEPT ![i] = p % LimbBase], k, i + 1, p \div LimbBase)

\* x fits 31 bits
IsSmall(x) == x[2] < 32768 /\ \A i \in 3..Len(x) : x[i] = 0

SmallValue(x) == x[1] + LimbBase * x[2]

\* x < n and x > n for a small n
UsizeLess(x, n) == IsSmall(x) /\ SmallValue(x) < n
UsizeGreater(x, n) == ~IsSmall(x) \/ SmallValue(x) > n

\* the end of the header size field, and the limits of the header size
PreludeLen == 268
MinHeaderSize == 512
MaxHeaderSize == 20000

\* extract::<u32>(.., Endian::Big) on the four bytes of the size field
U32BigEndian(b) == [hi |-> b[1] * 256 + b[2], lo |-> b[3] * 256 + b[4]]

AgilentOk(n, trace) == [kind |-> "ok", n |-> n, trace |-> trace]
\* an error that is never marked incomplete
AgilentErr_NeverIncomplete(msg, incomplete, trace) ==
    [kind |-> "err", msg |-> msg, incomplete |-> FALSE, trace |-> trace]

AgilentErr(msg, incomplete, trace) ==
    [kind |-> "err", msg |-> msg, incomplete |-> incomplete, trace |-> trace]
AgilentPanic(trace) == [kind |-> "panic", trace |-> trace]

\* the zero check left out
IsZeroLength_Never(raw_header_size) == FALSE

\* line 27: raw_header_size == 0
IsZeroLength(raw_header_size) == \A i \in 1..Len(raw_header_size) : raw_header_size[i] = 0

\* line 34: header_size < 512
HeaderTooShort(header_size) == UsizeLess(header_size, MinHeaderSize)

\* lines 34-41: the range check and the skip of the header
CheckedSkip(len, header_size, trace) ==
    IF HeaderTooShort(header_size)
    THEN AgilentErr("Header length too short", FALSE, trace)
    ELSE IF UsizeGreater(header_size, MaxHeaderSize)
         THEN AgilentErr("Header length too long", FALSE, trace)
         ELSE IF SmallValue(header_size) > len
              THEN AgilentErr(ShortError, FALSE, Append(trace, "skip"))
              ELSE AgilentOk(SmallValue(header_size), Append(trace, "skip"))

\* lines 31-33: header_size *= 256 unless ms_format
TimesStride(len, doubled, ms_format, build, trace) ==
    IF ms_format THEN CheckedSkip(len, doubled, trace)
    ELSE LET m == MulFrom(doubled, 256, 1, 0)
         IN IF m.overflow /\ build.checks THEN AgilentPanic(Append(trace, "mul256"))
            ELSE CheckedSkip(len, m.value, Append(trace, "mul256"))

\* read_agilent_header(rb, ms_format) on a slice of len bytes whose bytes
\* 264..268 are size_bytes; the trace lists the arithmetic it evaluated
ReadAgilentHeader(len, size_bytes, ms_format, build) ==
    IF len < PreludeLen THEN AgilentErr("Agilent header too short", TRUE, <<>>)
    ELSE LET raw_header_size == UsizeOfU32(U32BigEndian(size_bytes), build)
         IN IF IsZeroLength(raw_header_size)
            THEN AgilentErr("Invalid header length of 0", FALSE, <<>>)
            ELSE LET d == DecFrom(raw_header_size, 1)
                 IN IF d.overflow /\ build.checks THEN AgilentPanic(<<"sub">>)
                    ELSE LET m == MulFrom(d.value, 2, 1, 0)
                         IN IF m.overflow /\ build.checks
                            THEN AgilentPanic(<<"sub", "mul2">>)
                            ELSE TimesStride(len, m.value, ms_format, build,
                                             <<"sub", "mul2">>)

\* the lengths of the slices handed to read_agilent_header
AgilentLens == {0, 267, 268, 511, 512, 513, 19968, 19999, 20000, 20001, 20002, 20480}

\* the four bytes of the size field
AgilentSizes ==
    {<<b0, b1, b2, b3>> : b0 \in {0, 1, 128, 255}, b1 \in {0, 1, 255},
                          b2 \in {0, 1, 39, 255},
                          b3 \in {0, 1, 2, 16, 17, 18, 40, 41, 255}}

AgilentInit ==
    /\ pc = "agilent"
    /\ out = <<>>
    /\ call = NoCall
    /\ locals = NoLocals
    /\ built = NotBuilt
    /\ state = EmptyState
    /\ meta = NoFile
    /\ sink = <<>>
    /\ drv = NoDriver
    /\ source = <<>>
    /\ rb = FromSlice(<<>>)
    /\ input \in [len : AgilentLens, size_bytes : AgilentSizes, ms_format : BOOLEAN,
                  build : Builds]
    /\ input.len < PreludeLen => input.size_bytes = <<0, 0, 0, 0>>

\* one call of read_agilent_header
AgilentCall ==
    /\ pc = "agilent"
    /\ out' = <<ReadAgilentHeader(input.len, input.size_bytes, input.ms_format, input.build)>>
    /\ pc' = "agilent_done"
    /\ UNCHANGED <<input, source, rb, call, locals, state, meta, built, sink, drv>>

AgilentSpec == AgilentInit /\ [][AgilentCall]_vars

-----------------------------------------------------------------------------
(* EtError: add_context and Display *)

Space == 32
Caret == 94

Spaces(n) == [i \in 1..n |-> Space]

\* the decimal digits of n
RECURSIVE Decimal(_)
Decimal(n) == IF n < 10 THEN <<48 + n>> ELSE Decimal(n \div 10) \o <<48 + (n % 10)>>

HexDigit(d) == IF d < 10 THEN 48 + d ELSE 55 + d

\* {:X}: upper-case hexadecimal without padding
UpperHex(c) ==
    IF c < 16 THEN <<HexDigit(c)>> ELSE <<HexDigit(c \div 16), HexDigit(c % 16)>>

\* the text put after width spaces
PadLeft_Indent(text, width) == Spaces(width) \o text

\* {:>width$}: the text right-aligned in a field of width characters
PadLeft(text, width) ==
    (IF width > Len(text) THEN Spaces(width - Len(text)) ELSE <<>>) \o text

\* EtError::new: no context, not incomplete
NewError(msg) == [msg |-> msg, context |-> <<>>, incomplete |-> FALSE]

\* EtError::incomplete
Incomplete(err) == [err EXCEPT !.incomplete = TRUE]

\* the half of the context window on each side of the position
ContextHalf == 16

\* the context is the whole buffer and the position is the cursor
AddContext_WholeBuffer(buffer) ==
    [record |-> buffer.record_pos,
     byte |-> buffer.reader_pos + buffer.consumed,
     context |-> buffer.bytes,
     context_pos |-> buffer.consumed]

\* EtError::add_context: buffer.as_ref() is the whole buffer
AddContext(buffer) ==
    LET buf_len == Len(buffer.bytes)
        consumed == buffer.consumed
        near_start == consumed < ContextHalf
        near_end == buf_len < consumed + ContextHalf
        picked ==
            IF near_start /\ near_end THEN <<buffer.bytes, consumed>>
            ELSE IF near_start THEN <<Slice(buffer.bytes, 0, consumed + ContextHalf), consumed>>
            ELSE IF near_end
                 THEN IF consumed < buf_len
                      THEN <<Slice(buffer.bytes, consumed - ContextHalf, buf_len), ContextHalf>>
                      ELSE <<<<>>, 0>>
                 ELSE <<Slice(buffer.bytes, consumed - ContextHalf, consumed + ContextHalf),
                        ContextHalf>>
    IN [record |-> buffer.record_pos,
        byte |-> buffer.reader_pos + consumed,
        context |-> picked[1],
        context_pos |-> picked[2]]

\* add_context fills the context of the error and nothing else
WithContext(err, buffer) == [err EXCEPT !.context = <<AddContext(buffer)>>]

\* the hex row
HexRow(context) == Concat([i \in 1..Len(context) |-> UpperHex(context[i])])

\* the row of printable characters
AsciiRow(context) ==
    Concat([i \in 1..Len(context) |->
              IF context[i] > 31 /\ context[i] < 127 THEN <<Space, context[i]>>
              ELSE <<Space, Space>>])

\* the last row ends with the record count
CaretRow_Record(context) ==
    PadLeft(<<Caret, Caret>>, 2 * context.context_pos) \o <<Space>> \o Decimal(context.record)

\* the last row: "{:>width$} {}" of "^^" and the byte offset
CaretRow(context) ==
    PadLeft(<<Caret, Caret>>, 2 * context.context_pos) \o <<Space>> \o Decimal(context.byte)

\* Display of an error with context: the rows, each ended by '\n'
Display(msg, context) ==
    [message |-> msg, hex |-> HexRow(context.context), ascii |-> AsciiRow(context.context),
     caret |-> CaretRow(context)]

\* Display of an error without context: the message line
DisplayPlain(msg) == [message |-> msg]

\* "1234567890ABCDEF" repeated
TestByte(i) == <<49, 50, 51, 52, 53, 54, 55, 56, 57, 48, 65, 66, 67, 68, 69, 70>>[((i - 1) % 16) + 1]

\* a byte that tells its index: '@' + i
IndexByte(i) == 64 + i

\* the record count of a reader that has read many records
ManyRecords == 999

\* the buffers: the test text, bytes that tell their index, line feeds, or
\* bytes that are not ASCII
ErrBuffers ==
    {[bytes |-> [i \in 1..n |-> IF fill = 0 THEN TestByte(i)
                                ELSE IF fill = 1 THEN IndexByte(i) ELSE fill],
      consumed |-> c, reader_pos |-> r, record_pos |-> k] :
        n \in 0..ErrMaxLen, c \in 0..ErrMaxLen, r \in {0, 100}, k \in {0, ManyRecords},
        fill \in {0, 1, LF, BadByte}}

ErrorInit ==
    /\ pc = "error"
    /\ out = <<>>
    /\ call = NoCall
    /\ locals = NoLocals
    /\ built = NotBuilt
    /\ state = EmptyState
    /\ meta = NoFile
    /\ sink = <<>>
    /\ drv = NoDriver
    /\ source = <<>>
    /\ rb = FromSlice(<<>>)
    /\ input \in {b \in ErrBuffers : b.consumed <= Len(b.bytes)}

\* EtError::new("Test"), marked incomplete or not, gets the context of the
\* buffer and is formatted
ErrorDisplay ==
    /\ pc = "error"
    /\ \E flag \in BOOLEAN :
          LET err == IF flag THEN Incomplete(NewError("Test")) ELSE NewError("Test")
              after == WithContext(err, input)
              context == after.context[1]
          IN out' = <<[err |-> err, after |-> after, context |-> context,
                       shown |-> Display(after.msg, context)]>>
    /\ pc' = "shown"
    /\ UNCHANGED <<input, source, rb, call, locals, state, meta, built, sink, drv>>

\* EtError::new("Test") is formatted as it is
ErrorDisplayPlain ==
    /\ pc = "error"
    /\ LET err == NewError("Test")
       IN out' = <<[err |-> err, shown |-> DisplayPlain(err.msg)]>>
    /\ pc' = "plain"
    /\ UNCHANGED <<input, source, rb, call, locals, state, meta, built, sink, drv>>

ErrorSpec == ErrorInit /\ [][ErrorDisplay \/ ErrorDisplayPlain]_vars

-----------------------------------------------------------------------------
(* The FASTA format as section 4.4 of the specification words it *)

\* body without its '\n' bytes and without the '\r' bytes that directly
\* precede a '\n'
RECURSIVE StripLineEnds(_, _)
StripLineEnds(body, i) ==
    IF i > Len(body) THEN <<>>
    ELSE LET drop == \/ body[i] = LF
                     \/ body[i] = CR /\ i < Len(body) /\ body[i + 1] = LF
         IN (IF drop THEN <<>> ELSE <<body[i]>>) \o StripLineEnds(body, i + 1)

\* the offset of the '>' of the first "\n>" pair at or after offset from,
\* or the length of s
NextRecordStart(s, from) ==
    LET pairs == {j \in from..(Len(s) - 2) : At(s, j) = LF /\ At(s, j + 1) = GT}
    IN IF pairs = {} THEN Len(s)
       ELSE (CHOOSE j \in pairs : \A k \in pairs : j <= k) + 1

\* the header text and the sequence of the record that starts s
FirstRecord(s) ==
    LET p == Memchr(LF, s)
        stop == NextRecordStart(s, p + 1)
    IN [id |-> IF At(s, p - 1) = CR THEN Slice(s, 1, p - 1) ELSE Slice(s, 1, p),
        sequence |-> StripLineEnds(Slice(s, p + 1, stop), 1),
        stop |-> stop]

\* s is made of records: each starts with '>' and has a header line of text
RECURSIVE WellFormed(_)
WellFormed(s) ==
    \/ s = <<>>
    \/ /\ At(s, 0) = GT
       /\ Memchr(LF, s) # NoPos
       /\ Utf8Valid(FirstRecord(s).id)
       /\ WellFormed(Slice(s, FirstRecord(s).stop, Len(s)))

RECURSIVE Records(_)
Records(s) ==
    IF s = <<>> THEN <<>>
    ELSE LET r == FirstRecord(s)
         IN <<[id |-> r.id, sequence |-> r.sequence]>> \o Records(Slice(s, r.stop, Len(s)))

-----------------------------------------------------------------------------
(* Claims *)

\* the reader of the behaviour
IsFasta == pc \in {"idle", "loop"}
IsInficon == pc \in {"new", "ready", "failed", "dead"}

\* C1: for an input made of records that each start with '>' at the start
\* of a line, the calls of next() yield the records in source order, each
\* with the header text after '>' as id and the bytes up to the next "\n>"
\* pair or the end of input, without line ends, as sequence; then None.
C1_RecordsInOrder ==
    (pc = "idle" /\ WellFormed(input)) =>
        LET recs == Records(input)
        IN \A i \in 1..Len(out) :
              IF i <= Len(recs)
              THEN /\ out[i].result.kind = "some"
                   /\ out[i].result.id = recs[i].id
                   /\ out[i].result.sequence = recs[i].sequence
              ELSE out[i].result = NoneResult

\* two records were read, a line end was taken out of one of them, and
\* None followed
C1_Witness ==
    /\ WellFormed(input)
    /\ Len(Records(input)) = 2
    /\ Len(out) = 3
    /\ out[3].result = NoneResult
    /\ \E i \in 1..2 : out[i].result.owned /\ out[i].result.sequence # <<>>

\* C2: once next() has returned None, every later call returns None.
C2_NoneIsFinal ==
    \A i, j \in 1..Len(out) :
        (i < j /\ out[i].result.kind = "none") => out[j].result.kind = "none"

\* a record, then None, then None again
C2_Witness ==
    /\ IsFasta
    /\ Len(out) >= 3
    /\ out[Len(out) - 2].result.kind = "some"
    /\ out[Len(out) - 1].result.kind = "none"
    /\ out[Len(out)].result.kind = "none"

\* C3: once next() has returned a terminal error, every later call returns
\* an error of the same kind, the invalid UTF-8 header included.
C3_Poisoned ==
    \A i, j \in 1..Len(out) :
        (i < j /\ out[i].result.kind = "err") => out[j].result = out[i].result

\* C4: for an input without '\r', the input with every '\n' replaced by
\* "\r\n" yields the same (id, sequence) pairs followed by None.
C4_CrlfSame ==
    (pc = "idle" /\ \A k \in 1..Len(input) : input[k] # CR) =>
        LET twin == SliceResults(Crlf(input), Len(out))
        IN \A i \in 1..Len(out) : Outcome(out[i].result) = Outcome(twin[i])

\* two records of an input that ends with '\n', the last with a sequence,
\* then None
C4_Witness ==
    /\ \A k \in 1..Len(input) : input[k] # CR
    /\ Len(input) > 0 /\ input[Len(input)] = LF
    /\ Len(out) = 3
    /\ out[1].result.kind = "some"
    /\ out[2].result.kind = "some" /\ out[2].result.sequence # <<>>
    /\ out[3].result = NoneResult

NoPair(s) == ~\E j \in 0..(Len(s) - 2) : At(s, j) = LF /\ At(s, j + 1) = GT

\* the call found the buffer at eof with an unread part that starts with
\* '>' and holds no "\n>" pair
LastRecordCall(e) ==
    LET w == Window(e.rb0)
    IN e.rb0.eof /\ w # <<>> /\ At(w, 0) = GT /\ NoPair(w)

\* the call returned the whole unread part as one record and emptied the
\* buffer, and the next call, if made, returned None
ReturnedLastRecord(i) ==
    LET w == Window(out[i].rb0)
    IN /\ out[i].result.kind = "some"
       /\ out[i].result.sequence = StripLineEnds(Slice(w, Memchr(LF, w) + 1, Len(w)), 1)
       /\ Window(out[i].rb1) = <<>>
       /\ i < Len(out) => out[i + 1].result = NoneResult

\* C5, as claimed: at eof, an unread part that starts with '>' and holds no
\* "\n>" pair is returned as one record, not an error, that runs to the end
\* of input; all bytes are consumed and the next call returns None.
C5_Original ==
    IsFasta => \A i \in 1..Len(out) : LastRecordCall(out[i]) => ReturnedLastRecord(i)

\* C5, amended: the same when the header line is ended by a '\n' and is
\* valid UTF-8.
C5_LastRecord ==
    IsFasta =>
        \A i \in 1..Len(out) :
            LET w == Window(out[i].rb0)
            IN (/\ LastRecordCall(out[i])
                /\ Memchr(LF, w) # NoPos
                /\ Utf8Valid(FirstRecord(w).id)) => ReturnedLastRecord(i)

\* a second record that ran to the end of input over two lines, then None
C5_Witness ==
    /\ IsFasta
    /\ Len(out) = 3
    /\ out[1].result.kind = "some"
    /\ LastRecordCall(out[2])
    /\ out[2].result.kind = "some" /\ out[2].result.owned
    /\ out[2].rb0.consumed > 0
    /\ out[3].result = NoneResult

\* C6: when the buffer is not empty and its first unread byte is not '>',
\* next() returns the error "Valid FASTA records start with '>'" and leaves
\* the buffer as it was: nothing consumed, record_pos kept, no refill.
C6_StartByte ==
    IsFasta =>
        \A i \in 1..Len(out) :
            LET w == Window(out[i].rb0)
            IN (w # <<>> /\ At(w, 0) # GT) =>
                  /\ out[i].result = ErrResult("Valid FASTA records start with '>'")
                  /\ out[i].rb1 = out[i].rb0
                  /\ out[i].src1 = out[i].src0

\* the error was returned twice on a window with a newline, with bytes
\* left in the byte source
C6_Witness ==
    /\ IsFasta
    /\ Len(out) = 2
    /\ \A i \in 1..2 :
          /\ out[i].result = ErrResult("Valid FASTA records start with '>'")
          /\ Memchr(LF, Window(out[i].rb0)) # NoPos
          /\ out[i].src0 # <<>>

\* C7: every index and range next() uses is in bounds and no subtraction
\* underflows: 1 <= header_end, seq_start <= seq_end <= rec_end <= the
\* length of the unread window, raw_pos - 1 is taken only of raw_pos >= 1,
\* the recorded newline offsets increase strictly and are smaller than the
\* length of the raw sequence; next() never panics.
C7_InBounds ==
    /\ IsFasta => \A i \in 1..Len(out) : out[i].result.kind \in {"some", "none", "err"}
    /\ locals.set =>
          LET q == locals.pass
              raw_len == q.seq_end - q.seq_start
          IN /\ 1 <= q.header_end
             /\ q.header_end <= q.rec_end
             /\ q.seq_start <= q.seq_end
             /\ q.seq_end <= q.rec_end
             /\ q.rec_end <= Len(locals.win)
             /\ \A k \in 1..Len(q.pushed) : q.pushed[k] >= 0
             /\ \A k \in 1..Len(q.nl) : q.nl[k] < raw_len
             /\ \A k \in 2..Len(q.nl) : q.nl[k - 1] < q.nl[k]

\* a record ended by "\n>" whose sequence starts with "\r\n": the offsets
\* 0 and 1 were recorded and kept, the last newline was popped
C7_Witness ==
    /\ locals.set
    /\ locals.pass.found_end
    /\ Len(locals.pass.pushed) = 3
    /\ locals.pass.nl = <<0, 1>>
    /\ Len(out) > 0 /\ out[Len(out)].result.kind = "some"

\* C8: the Inficon record parse produces a record only while data_left > 0;
\* once data_left is zero it returns false, the end of the stream, without
\* reading a byte, and no record follows.
C8_EndOfData ==
    IsInficon =>
        \A i \in 1..Len(out) :
            /\ out[i].result.kind = "some" => out[i].st0.data_left > 0
            /\ out[i].st0.data_left = 0 =>
                  /\ out[i].result = NoneResult
                  /\ out[i].st1 = out[i].st0
                  /\ out[i].con1 = out[i].con0

\* C9: for a well-formed Inficon file whose data section holds exactly
\* data_length bytes of bursts, the records consume data_length bytes in all
\* and data_left is zero after the last one; data_left never increases and
\* never goes below zero.
C9_ByteAccounting ==
    (IsInficon /\ built.done /\ built.ok /\ meta.data_ok) =>
        /\ \A i \in 1..Len(out) :
              /\ out[i].st1.data_left <= out[i].st0.data_left
              /\ out[i].st1.data_left >= 0
        /\ (out # <<>> /\ out[Len(out)].result.kind = "none") =>
              /\ rb.consumed - built.con = meta.data_len
              /\ state.data_left = 0

\* C10: for a slice given as a complete input that is not a complete
\* well-formed header, the construction of the Inficon reader returns an
\* error; it does not panic and the cursor never passes the end of the
\* slice.
C10_BadHeaderFails ==
    (IsInficon /\ built.done) =>
        /\ ~meta.header_ok => ~built.ok
        /\ built.ok => built.con <= Len(input)
        /\ rb.consumed <= Len(input)

\* a file whose segment table is cut short was refused
C10_Witness ==
    /\ IsInficon /\ built.done /\ ~meta.header_ok
    /\ Len(input) > Len(Magic) + Len(MzHeaderPattern) + 152
    /\ ~built.ok /\ built.msg = ShortError

\* the absolute position of a buffer in its source
AbsPos(b) == b.reader_pos + b.consumed

\* the number of records among the first i calls of next()
NumRecords(i) == Cardinality({j \in 1..i : out[j].result.kind = "some"})

\* C16: each next() of the FASTA reader that yields a record consumes once:
\* record_pos grows by one and the absolute position moves from the '>' of
\* the record to the '>' after the next "\n>" pair, or to the end of input;
\* after the k-th record record_pos is k; the absolute position never
\* decreases; a next() that returns None consumes nothing.
C16_ConsumeAccounting ==
    IsFasta =>
        \A i \in 1..Len(out) :
            LET e == out[i]
                from == AbsPos(e.rb0)
            IN /\ AbsPos(e.rb1) >= from
               /\ i > 1 => AbsPos(e.rb0) >= AbsPos(out[i - 1].rb1)
               /\ e.result.kind = "some" =>
                     /\ e.rb1.record_pos = e.rb0.record_pos + 1
                     /\ AbsPos(e.rb1) =
                           from + FirstRecord(Slice(input, from, Len(input))).stop
                     /\ e.rb1.record_pos = NumRecords(i)
               /\ e.result = NoneResult =>
                     /\ AbsPos(e.rb1) = from
                     /\ e.rb1.record_pos = e.rb0.record_pos

\* C16 for the calls made before any call returned an error
C16_BeforeError ==
    (IsFasta /\ \A j \in 1..Len(out) : out[j].result.kind # "err") => C16_ConsumeAccounting

\* the unread window of an Inficon reader at a call of next()
WindowAt(e) == Slice(input, e.con0, Len(input))

\* no burst is in progress and the unread window starts with a whole burst
\* header followed by an intensity
AtBurstHeader(e) == e.st0.mzs_left = 0 /\ CanTake(WindowAt(e), 0, 20)

BurstSegment(e) == U16At(WindowAt(e), 14) \div 16
BurstLength(e) == U16At(WindowAt(e), 10)

\* the burst header at the window names a segment of the table and
\* declares as many intensities as the segment has m/z values
BurstAccepted(e) ==
    /\ AtBurstHeader(e)
    /\ BurstSegment(e) < Len(e.st0.mz_segments)
    /\ BurstLength(e) = Len(e.st0.mz_segments[BurstSegment(e) + 1])
    /\ BurstLength(e) > 0

\* C18: after a burst header that declares n intensities for segment s is
\* accepted, the i-th record of the burst carries mz_segments[s][i] and the
\* time of the burst; the index is below the length of the segment and no
\* record parse panics.
C18_BurstMz ==
    IsInficon =>
        \A i \in 1..Len(out) :
            /\ out[i].result.kind # "panic"
            /\ (BurstAccepted(out[i]) /\ out[i].result.kind = "some") =>
                  /\ out[i].result.mz = out[i].st0.mz_segments[BurstSegment(out[i]) + 1][1]
                  /\ out[i].result.time = Ratio(I32At(WindowAt(out[i]), 4), 60000)

\* the m/z values of a range as the code lists them: one value for a SIM,
\* and for a full scan the start and every 100th raw value after it up to
\* the end
ListedMzs(r) ==
    IF r.i_type = 0 THEN <<Ratio(U32Int(r.start_mz), 100)>>
    ELSE [k \in 1..((U32Int(r.end_mz) - U32Int(r.start_mz)) \div 100 + 1) |->
             Ratio(U32Int(r.start_mz) + 100 * (k - 1), 100)]

\* the m/z values of a range with every raw value of a full scan listed
EveryRawMz(r) ==
    IF r.i_type = 0 THEN <<Ratio(U32Int(r.start_mz), 100)>>
    ELSE [k \in 1..(U32Int(r.end_mz) - U32Int(r.start_mz) + 1) |->
             Ratio(U32Int(r.start_mz) + (k - 1), 100)]

\* C19 as stated: a SIM range appends start_mz/100 and a full scan range
\* appends every integer from start_mz to end_mz inclusive divided by 100,
\* end_mz - start_mz + 1 values.
C19_Original ==
    (IsInficon /\ built.done /\ built.ok /\ meta.header_ok) =>
        \A s \in 1..Len(meta.table) :
            state.mz_segments[s] =
                Concat([k \in 1..Len(meta.table[s]) |-> EveryRawMz(meta.table[s][k])])

\* C19 amended: a SIM range appends start_mz/100 and a full scan range
\* appends (start_mz + 100k)/100 for k = 0, 1, ... while start_mz + 100k is
\* at most end_mz, in increasing order.
C19_SegmentMzs ==
    (IsInficon /\ built.done /\ built.ok /\ meta.header_ok) =>
        /\ Len(state.mz_segments) = Len(meta.table)
        /\ \A s \in 1..Len(meta.table) :
              state.mz_segments[s] =
                  Concat([k \in 1..Len(meta.table[s]) |-> ListedMzs(meta.table[s][k])])

\* a table with a full scan range whose end is not a listed value was read
C19_Witness ==
    /\ IsInficon /\ built.done /\ built.ok /\ meta.header_ok
    /\ meta.table = <<<<FullScan(100, 250), Sim(300, 400)>>>>
    /\ state.mz_segments = <<<<Ratio(100, 100), Ratio(200, 100), Ratio(300, 100)>>>>

\* the burst header at the window names no segment of the table or
\* declares a number of intensities that is not the m/z count of its segment
BurstInvalid(e) ==
    /\ AtBurstHeader(e)
    /\ \/ BurstSegment(e) >= Len(e.st0.mz_segments)
       \/ BurstLength(e) # Len(e.st0.mz_segments[BurstSegment(e) + 1])

BurstErrors ==
    {"Invalid segment number", "Number of intensities doesn't match number of mzs"}

\* the outcome the claim gives a call on an invalid burst header
BurstRefused(e) ==
    /\ e.result.kind = "err"
    /\ e.result.msg \in BurstErrors
    /\ e.con1 = e.con0
    /\ e.st1.mzs_left = e.st0.mzs_left
    /\ e.st1.data_left = e.st0.data_left

\* C20: when the burst header has a segment index that is not below the
\* number of segments, or a length that differs from the m/z count of its
\* segment, the record parse returns a terminal error, emits no record,
\* leaves the cursor where it was and changes neither mzs_left nor
\* data_left.
C20_BurstValidation ==
    IsInficon =>
        \A i \in 1..Len(out) : BurstInvalid(out[i]) => BurstRefused(out[i])

\* C20 for the calls in which the record parse reads the burst header
C20_WhenRead ==
    IsInficon =>
        \A i \in 1..Len(out) :
            (BurstInvalid(out[i]) /\ out[i].st0.data_left = 0) => BurstRefused(out[i])

\* the behaviour is a run of the TSV driver
IsTsv == drv.kind # "none"

\* C11: headers() returns the same ordered list on every call, however many
\* records were read, and every record yielded has size() equal to the
\* number of headers: [id, sequence] and 2 for FASTA, [time, mz, intensity]
\* and 3 for Inficon.
C11_HeadersAgree ==
    IsTsv =>
        /\ \A a \in 1..Len(drv.first) :
              /\ drv.first[a] = IF drv.kind = "fasta" THEN <<IdName, SequenceName>>
                                ELSE <<TimeName, MzName, IntensityName>>
              /\ \A b \in 1..Len(drv.again) : drv.again[b].names = drv.first[a]
              /\ \A k \in 1..Len(drv.records) : drv.records[k].size = Len(drv.first[a])
        /\ \A k \in 1..Len(drv.records) :
              drv.records[k].size = IF drv.kind = "fasta" THEN 2 ELSE 3

\* headers() was asked again after two FASTA records were read
C11_Witness ==
    /\ IsTsv /\ drv.kind = "fasta"
    /\ drv.first # <<>>
    /\ Len(drv.records) = 2
    /\ drv.again # <<>> /\ drv.again[1].at = 2

\* the writes of the k-th record in the order the claim gives them
RecordWrites(k) ==
    LET r == drv.records[k]
    IN <<Written(<<LF>>, k, -1), Written(WriteField(drv.kind, r.n, 0).bytes, k, 0)>>
         \o Concat([i \in 1..(r.size - 1) |->
                      <<Written(<<Tab>>, k, -1),
                        Written(WriteField(drv.kind, r.n, i).bytes, k, i)>>])

\* the writes for the header row and the records yielded so far
ExpectedWrites ==
    <<Written(JoinTabs(Headers(drv.kind)), 0, -1)>>
        \o Concat([k \in 1..Len(drv.records) |-> RecordWrites(k)])

\* C12: write_reader_to_tsv writes the header names joined by tabs, then
\* for each record in the order of next() a newline, field 0 and, for each
\* i in 1..size()-1, a tab and field i; each field index is written once
\* in increasing order, the writes of a record precede those of the next,
\* and no newline is written after the last record.
C12_WriteOrder ==
    IsTsv =>
        /\ Len(sink) <= Len(ExpectedWrites)
        /\ \A j \in 1..Len(sink) : sink[j] = ExpectedWrites[j]
        /\ (pc = "done" \/ (pc = "next" /\ drv.first # <<>>)) => sink = ExpectedWrites
        /\ (pc = "done" /\ drv.records # <<>>) =>
              sink[Len(sink)].field = drv.records[Len(drv.records)].size - 1

\* the driver ended after it wrote two records
C12_Witness ==
    /\ IsTsv /\ pc = "done"
    /\ Len(drv.records) = 2
    /\ Len(sink) = 9

\* C17: write_field(0) of a FASTA record writes the id with every tab
\* replaced by '|' and every other byte unchanged; write_field(1) writes
\* the sequence unchanged.
C17_IdTabs ==
    (IsTsv /\ drv.kind = "fasta") =>
        \A j \in 1..Len(sink) :
            /\ sink[j].field = 0 =>
                  LET id == drv.records[sink[j].rec].n.id
                      written == sink[j].bytes
                  IN /\ Len(written) = Len(id)
                     /\ \A q \in 1..Len(id) :
                           written[q] = IF id[q] = Tab THEN Pipe ELSE id[q]
                     /\ \A q \in 1..Len(written) : written[q] # Tab
            /\ sink[j].field = 1 => sink[j].bytes = drv.records[sink[j].rec].n.sequence

\* an id with a tab and a letter and a sequence with a tab were written
C17_Witness ==
    /\ IsTsv /\ drv.kind = "fasta"
    /\ \E j \in 1..Len(sink) :
          /\ sink[j].field = 1
          /\ sink[j].bytes = <<Tab>>
          /\ drv.records[sink[j].rec].n.id = <<LetterA, Tab>>
          /\ sink[j - 1].bytes = <<Tab>>
          /\ sink[j - 2].bytes = <<LetterA, Pipe>>

\* the behaviour is a call of read_agilent_header that has returned
AgilentDone == pc = "agilent_done"

\* header_size = 2 * (raw - 1), times 256 unless ms_format, for a non-zero
\* raw below 65536; a larger raw gives a size above every limit
RuleSize ==
    LET raw == U32BigEndian(input.size_bytes)
    IN IF raw.hi > 0 THEN MaxHeaderSize + 1
       ELSE 2 * (raw.lo - 1) * (IF input.ms_format THEN 1 ELSE 256)

RuleAccepts ==
    /\ input.len >= 268
    /\ U32BigEndian(input.size_bytes) # [hi |-> 0, lo |-> 0]
    /\ RuleSize >= 512 /\ RuleSize <= 20000
    /\ input.len >= RuleSize

\* the outcome the rule of C13 gives the call
RuleHolds ==
    /\ out[1].kind # "panic"
    /\ RuleAccepts => out[1].kind = "ok" /\ out[1].n = RuleSize
    /\ ~RuleAccepts => out[1].kind = "err"
    /\ (out[1].kind = "err" /\ out[1].msg = "Header length too short") =>
          RuleSize < 512
    /\ (input.len >= 268 /\ U32BigEndian(input.size_bytes) # [hi |-> 0, lo |-> 0]) =>
          /\ RuleSize < 512 => out[1].kind = "err" /\ out[1].msg = "Header length too short"
          /\ RuleSize > 20000 => out[1].kind = "err" /\ out[1].msg = "Header length too long"

\* C13: read_agilent_header returns Ok(n) exactly when the slice has at
\* least 268 bytes, the big-endian u32 raw at 264..268 is not zero,
\* header_size = 2*(raw-1) (times 256 unless ms_format) is between 512 and
\* 20000 and the slice has header_size bytes, with n = header_size; else it
\* returns an error, "too short" below 512 and "too long" above 20000, and
\* it never panics or overflows.
C13_HeaderSize == AgilentDone => RuleHolds

\* C13 on the builds whose usize has 64 bits
C13_OnWideUsize == (AgilentDone /\ input.build.bits = 64) => RuleHolds

\* C14: for a slice of at least 268 bytes whose bytes 264..268 are zero,
\* read_agilent_header returns the error "Invalid header length of 0" with
\* the incomplete flag false, for both values of ms_format, and raw - 1 is
\* not evaluated.
C14_ZeroLength ==
    (AgilentDone /\ input.len >= 268 /\ input.size_bytes = <<0, 0, 0, 0>>) =>
        /\ out[1].kind = "err"
        /\ out[1].msg = "Invalid header length of 0"
        /\ out[1].incomplete = FALSE
        /\ out[1].trace = <<>>

\* a zero size field was refused for a slice of exactly 268 bytes that is
\* not in the MS format
C14_Witness ==
    /\ AgilentDone
    /\ input.len = 268 /\ input.size_bytes = <<0, 0, 0, 0>> /\ ~input.ms_format
    /\ out[1].kind = "err" /\ out[1].msg = "Invalid header length of 0"

\* the behaviour is an error with context that has been formatted
ErrorShown == pc = "shown"

\* the number of spaces a row starts with
RECURSIVE Indent(_)
Indent(row) == IF row # <<>> /\ Head(row) = Space THEN 1 + Indent(Tail(row)) ELSE 0

\* the caret row after its indentation is "^^", a space and the absolute
\* byte offset
CaretRowEnds ==
    LET row == out[1].shown.caret
    IN SubSeq(row, Indent(row) + 1, Len(row))
           = <<Caret, Caret, Space>> \o Decimal(input.reader_pos + input.consumed)

\* C15 as stated: the last row shows '^^' indented by 2*context_pos
\* spaces, followed by one space and the absolute byte offset.
C15_Original ==
    ErrorShown => /\ Indent(out[1].shown.caret) = 2 * out[1].context.context_pos
                  /\ CaretRowEnds

\* C15 amended: '^^' is right-aligned in a field of 2*context_pos
\* characters, so it is indented by 2*context_pos - 2 spaces, or by none
\* when context_pos is 0, and is followed by one space and the absolute
\* byte offset.
C15_CaretRow ==
    ErrorShown =>
        /\ Indent(out[1].shown.caret) =
              IF out[1].context.context_pos = 0 THEN 0
              ELSE 2 * out[1].context.context_pos - 2
        /\ CaretRowEnds

\* the 16-byte test buffer with consumed = 10 was shown: 18 spaces, then
\* "^^ 10"
C15_Witness ==
    /\ ErrorShown
    /\ Len(input.bytes) = 16 /\ input.bytes[1] = 49
    /\ input.consumed = 10 /\ input.reader_pos = 0
    /\ out[1].context.context_pos = 10
    /\ out[1].shown.caret = Spaces(18) \o <<Caret, Caret, Space, 49, 48>>

\* the errors of read_agilent_header for a bad header size
SizeErrors ==
    {"Invalid header length of 0", "Header length too short", "Header length too long"}

\* C22: with fewer than 268 bytes read_agilent_header returns an error with
\* the incomplete flag set and does not read the size field; with at least
\* 268 bytes the errors for a zero, a too short and a too long header size
\* have the incomplete flag false.
C22_ShortInput ==
    AgilentDone =>
        /\ input.len < 268 =>
              /\ out[1].kind = "err"
              /\ out[1].incomplete
              /\ out[1].msg = "Agilent header too short"
              /\ out[1].trace = <<>>
        /\ (input.len >= 268 /\ out[1].kind = "err" /\ out[1].msg \in SizeErrors) =>
              ~out[1].incomplete

\* a slice of 267 bytes was refused as incomplete
C22_Witness ==
    /\ AgilentDone
    /\ input.len = 267
    /\ out[1].kind = "err" /\ out[1].incomplete

\* C23: for a cursor within the buffer add_context takes at most 32
\* contiguous bytes of the buffer, context_pos is at most 16 and at most the
\* length of the context, the byte at context_pos is the byte at the cursor
\* when there is one, byte is reader_pos + consumed, record is record_pos,
\* and msg and incomplete are unchanged.
C23_AddContext ==
    ErrorShown =>
        LET c == out[1].context
            start == input.consumed - c.context_pos
        IN /\ Len(c.context) <= 32
           /\ c.context_pos <= 16
           /\ c.context_pos <= Len(c.context)
           /\ start >= 0
           /\ start + Len(c.context) <= Len(input.bytes)
           /\ c.context = Slice(input.bytes, start, start + Len(c.context))
           /\ input.consumed < Len(input.bytes) =>
                 /\ c.context_pos < Len(c.context)
                 /\ c.context[c.context_pos + 1] = input.bytes[input.consumed + 1]
           /\ c.byte = input.reader_pos + input.consumed
           /\ c.record = input.record_pos
           /\ out[1].after.msg = out[1].err.msg
           /\ out[1].after.incomplete = out[1].err.incomplete

\* an incomplete error got the 32 bytes around cursor 17 of a 34-byte buffer
\* whose bytes tell their index
C23_Witness ==
    /\ ErrorShown
    /\ Len(input.bytes) = 34 /\ input.bytes[1] = IndexByte(1)
    /\ input.consumed = 17
    /\ out[1].err.incomplete /\ out[1].after.incomplete
    /\ out[1].context.context = [i \in 1..32 |-> IndexByte(i + 1)]
    /\ out[1].context.context_pos = 16

\* the behaviour is an error without context that has been formatted
ErrorShownPlain == pc = "plain"

\* text is a part of row
Contains(row, text) ==
    \E i \in 0..(Len(row) - Len(text)) : SubSeq(row, i + 1, i + Len(text)) = text

HexChars == {HexDigit(d) : d \in 0..15}

\* the hex row is made of hex digits, one or two for each byte of context
IsHexRow(row, context) ==
    /\ Len(row) >= Len(context) /\ Len(row) <= 2 * Len(context)
    /\ \A i \in 1..Len(row) : row[i] \in HexChars

\* the ASCII row has a space and the character for each printable byte
IsAsciiRow(row, context) ==
    /\ Len(row) = 2 * Len(context)
    /\ \A i \in 1..Len(context) :
          /\ row[2 * i - 1] = Space
          /\ IF context[i] > 31 /\ context[i] < 127 THEN row[2 * i] = context[i]
             ELSE row[2 * i] = Space

\* the rows of an error with context other than the record count
ShownRows ==
    LET shown == out[1].shown
        c == out[1].context
    IN /\ DOMAIN shown = {"message", "hex", "ascii", "caret"}
       /\ shown.message = out[1].err.msg
       /\ IsHexRow(shown.hex, c.context)
       /\ IsAsciiRow(shown.ascii, c.context)
       /\ CaretRowEnds

\* the output of an error without context is the message line
ShownPlain == ErrorShownPlain => out[1].shown = [message |-> out[1].err.msg]

\* C24 as stated: with context the display has the message, the absolute
\* byte offset, the record count, a hex row, an ASCII row and a caret line;
\* without context it has only the message line.
C24_Original ==
    /\ ErrorShown =>
          /\ ShownRows
          /\ \E row \in {out[1].shown.hex, out[1].shown.ascii, out[1].shown.caret} :
                Contains(row, Decimal(out[1].context.record))
    /\ ShownPlain

\* C24 amended: with context the display has the message, a hex row, an
\* ASCII row and a caret line that ends with the absolute byte offset; the
\* record count is not in it; without context it has only the message line.
C24_Display ==
    /\ ErrorShown =>
          /\ ShownRows
          /\ out[1].context.record = ManyRecords =>
                \A row \in {out[1].shown.hex, out[1].shown.ascii, out[1].shown.caret} :
                   ~Contains(row, Decimal(ManyRecords))
    /\ ShownPlain

\* an error at record 999 and byte 110 was shown with its four rows
C24_Witness ==
    /\ ErrorShown
    /\ input.record_pos = ManyRecords /\ out[1].context.record = ManyRecords
    /\ Len(input.bytes) = 16 /\ input.bytes[1] = 49
    /\ input.consumed = 10 /\ input.reader_pos = 100
    /\ out[1].shown.caret = Spaces(18) \o <<Caret, Caret, Space, 49, 49, 48>>

\* the two hex digits of a byte
TwoHex(c) == <<HexDigit(c \div 16), HexDigit(c % 16)>>

\* C25: every context byte contributes exactly two hex characters to the hex
\* row and two characters to the ASCII row, so both rows have length
\* 2 * len(context) and byte i of the context is at columns 2i..2i+1 of both.
C25_Columns ==
    ErrorShown =>
        LET shown == out[1].shown
            context == out[1].context.context
        IN /\ Len(shown.hex) = 2 * Len(context)
           /\ Len(shown.ascii) = 2 * Len(context)
           /\ \A i \in 1..Len(context) :
                 SubSeq(shown.hex, 2 * i - 1, 2 * i) = TwoHex(context[i])

\* the bytes of the source that call i of next() consumed
RecordBytes(i) == Slice(input, AbsPos(out[i].rb0), AbsPos(out[i].rb1))

\* body without the line terminators ('\n' or "\r\n") at its end
RECURSIVE TrimTerminators(_)
TrimTerminators(body) ==
    LET n == Len(body)
    IN IF n >= 1 /\ body[n] = LF
       THEN IF n >= 2 /\ body[n - 1] = CR THEN TrimTerminators(SubSeq(body, 1, n - 2))
            ELSE TrimTerminators(SubSeq(body, 1, n - 1))
       ELSE body

\* the sequence lines of the record that call i yielded, without the line
\* terminators after the last line
SequenceLines(i) ==
    LET record == RecordBytes(i)
    IN TrimTerminators(Slice(record, Memchr(LF, record) + 1, Len(record)))

\* C26: a yielded sequence borrows the source bytes whenever it has no
\* interior newline, also for a last record at the end of input that is
\* followed only by a line terminator; it is owned only when an interior
\* newline had to be removed.
C26_Borrowing ==
    IsFasta =>
        \A i \in 1..Len(out) :
            out[i].result.kind = "some" =>
                LET lines == SequenceLines(i)
                IN /\ out[i].result.owned <=> Memchr(LF, lines) # NoPos
                   /\ ~out[i].result.owned => out[i].result.sequence = lines

\* the positions of s that hold a '>' at the start of a line
LineInitialGts(s) == {p \in 1..Len(s) : s[p] = GT /\ (p = 1 \/ s[p - 1] = LF)}

\* the input was read to its end without an error
ReadToNone ==
    /\ pc = "idle" /\ out # <<>>
    /\ out[Len(out)].result = NoneResult
    /\ \A i \in 1..Len(out) : out[i].result.kind \in {"some", "none"}

\* C27: every '>' that directly follows a '\n' starts a new record, also
\* when a header line is directly followed by another header line; no
\* yielded record holds a '>' at the start of a line after its first byte,
\* and the number of records is the number of line-initial '>' bytes.
C27_Boundaries ==
    (IsFasta /\ ReadToNone) =>
        /\ NumRecords(Len(out)) = Cardinality(LineInitialGts(input))
        /\ \A i \in 1..Len(out) :
              out[i].result.kind = "some" => LineInitialGts(RecordBytes(i)) = {1}

\* C28: for every input and every way the source hands it out in chunks,
\* the results of next() are those of the reader over the same bytes as one
\* slice.
C28_RefillIndependence ==
    (IsFasta /\ pc = "idle") =>
        LET whole == SliceResults(input, Len(out))
        IN \A i \in 1..Len(out) : out[i].result = whole[i]

\* a source that came in chunks gave two records, one of them after a
\* refill in the middle of the call, and then None
C28_Witness ==
    /\ IsFasta /\ pc = "idle"
    /\ Len(out) = 3
    /\ out[1].result.kind = "some" /\ out[2].result.kind = "some"
    /\ out[3].result = NoneResult
    /\ \E i \in 1..2 : out[i].src0 # out[i].src1 /\ out[i].rb0.buffer # <<>>

\* every record in the history took at least two bytes of the source, so
\* the records are at most half as many as the bytes
RecordsTakeTwo ==
    IsFasta =>
        /\ \A i \in 1..Len(out) :
              out[i].result.kind = "some" => AbsPos(out[i].rb1) - AbsPos(out[i].rb0) >= 2
        /\ 2 * NumRecords(Len(out)) <= Len(input)

\* C29: when each refill appends at least one byte or sets eof for good,
\* every call of next() on a finite input returns, every yielded record
\* consumes at least two bytes, and the iteration reaches None or an error
\* after finitely many calls.
C29_Termination ==
    /\ (pc = "loop") ~> (pc = "idle")
    /\ []RecordsTakeTwo
    /\ IsFasta ~> (NumTerminal(out) >= 1)

\* a call of next() that refilled twice, the second refill finding the end
\* of the source, returned a record, and the next call returned None
C29_Witness ==
    /\ IsFasta /\ pc = "idle"
    /\ Len(out) = 2
    /\ out[1].result.kind = "some" /\ out[2].result = NoneResult
    /\ ~out[1].rb0.eof /\ out[1].rb1.eof
    /\ out[1].src0 # <<>> /\ Len(out[1].rb0.buffer) < Len(input)

\* C21: every error return of the Inficon header parse and of the record
\* parse leaves the caller's cursor unchanged; a successful header parse
\* moves it by the bytes read, to 56 bytes past "HapsScan", and a successful
\* record parse by 20 bytes for the first intensity of a burst and by 4
\* bytes otherwise.
C21_CursorFrame ==
    (IsInficon /\ built.done) =>
        /\ ~built.ok => rb.consumed = 0
        /\ built.ok =>
              /\ built.con >= 64 /\ built.con <= Len(input)
              /\ Slice(input, built.con - 64, built.con - 56) = HapsScan
              /\ meta.header_ok => built.con = meta.header_len
              /\ out # <<>> => out[1].con0 = built.con
              /\ out = <<>> => rb.consumed = built.con
        /\ \A i \in 1..Len(out) :
              /\ out[i].result.kind \in {"err", "none"} => out[i].con1 = out[i].con0
              /\ out[i].result.kind = "some" =>
                    out[i].con1 - out[i].con0 = IF out[i].st0.mzs_left = 0 THEN 20 ELSE 4
              /\ i > 1 => out[i].con0 = out[i - 1].con1

\* the header of a whole file moved the cursor to the data section, and a
\* record parse that refused the burst header there left it in place
C21_Witness ==
    /\ IsInficon /\ built.done /\ built.ok
    /\ meta.header_ok /\ built.con = meta.header_len
    /\ out # <<>>
    /\ out[1].result.kind = "err" /\ out[1].result.msg \in BurstErrors
    /\ out[1].con0 = built.con /\ out[1].con1 = built.con

\* the m/z values of the segment that state st is in, none when there is
\* no such segment
CurSegment(st) ==
    IF st.cur_segment < Len(st.mz_segments) THEN st.mz_segments[st.cur_segment + 1] ELSE <<>>

\* C30: mzs_left is between 0 and the length of the current segment in
\* every reachable state; an emitted record decrements it by exactly one and
\* never below zero; a burst header that declares zero intensities for an
\* empty segment causes no underflow and no read out of bounds; a new burst
\* header is read exactly when mzs_left is 0.
C30_BurstCounter ==
    IsInficon =>
        /\ state.mzs_left >= 0 /\ state.mzs_left <= Len(CurSegment(state))
        /\ \A i \in 1..Len(out) :
              /\ out[i].result.kind # "panic"
              /\ out[i].result.kind = "some" =>
                    /\ out[i].st1.mzs_left >= 0
                    /\ out[i].st1.mzs_left =
                          (IF out[i].st0.mzs_left = 0 THEN Len(CurSegment(out[i].st1))
                           ELSE out[i].st0.mzs_left) - 1
                    /\ (out[i].con1 - out[i].con0 = 20) <=> (out[i].st0.mzs_left = 0)

====
